---- MODULE Spec2Model ----
(***************************************************************************)
(* fetchero: the REST path resolver, the GraphQL operation resolver and    *)
(* the request execution engine (HttpClient.makeRequest), as one state     *)
(* machine.  Chain objects live in a heap (objs); a terminal call walks    *)
(* through the suspension points of makeRequest (request hook, transport,  *)
(* response hook).                                                         *)
(***************************************************************************)
EXTENDS Integers, Sequences, FiniteSets, TLC

VARIABLES
  objs,    \* the chain objects created so far (what each proxy closes over)
  chain,   \* per chain object: its parent and the steps that led to it
  last,    \* what the latest chain step returned or threw
  calls,   \* the terminal calls: each one's position in makeRequest
  cfg      \* the instance: entry point in use and the interceptors set

vars == <<objs, chain, last, calls, cfg>>

(***************************************************************************)
(* Bounds of the model.                                                    *)
(***************************************************************************)
MaxRestObjs == 2

MaxGqlObjs == 3

\* the builders made from the one the caller starts with, in SpecBuilder
MaxSiblings == 1

\* the terminal calls the caller has pending at once, in SpecConcurrent
MaxPending == 2

(***************************************************************************)
(* JavaScript values, as far as the code reads them.                       *)
(***************************************************************************)
Null == [t |-> "null"]

Undefined == [t |-> "undefined"]

Str(s) == [t |-> "string", s |-> s]

Num(n) == [t |-> "number", n |-> n]

Bool(b) == [t |-> "boolean", b |-> b]

Arr(a) == [t |-> "array", a |-> a]

Obj(m) == [t |-> "object", m |-> m]

\* v != null
NotNullish(v) == v.t \notin {"null", "undefined"}

\* ToBoolean(v)
Truthy(v) ==
  CASE v.t = "null" -> FALSE
    [] v.t = "undefined" -> FALSE
    [] v.t = "string" -> v.s # ""
    [] v.t = "number" -> v.n # 0
    [] v.t = "boolean" -> v.b
    [] OTHER -> TRUE

\* Object.prototype.toString.call(v)
ObjectTag(v) ==
  CASE v.t = "null" -> "[object Null]"
    [] v.t = "undefined" -> "[object Undefined]"
    [] v.t = "string" -> "[object String]"
    [] v.t = "number" -> "[object Number]"
    [] v.t = "boolean" -> "[object Boolean]"
    [] v.t = "array" -> "[object Array]"
    [] OTHER -> "[object Object]"

RECURSIVE Join(_, _)
\* Array.prototype.join over strings
Join(ss, sep) ==
  IF Len(ss) = 0 THEN ""
  ELSE IF Len(ss) = 1 THEN ss[1]
  ELSE ss[1] \o sep \o Join(Tail(ss), sep)

\* String(v)
String(v) ==
  CASE v.t = "null" -> "null"
    [] v.t = "undefined" -> "undefined"
    [] v.t = "string" -> v.s
    [] v.t = "number" -> ToString(v.n)
    [] v.t = "boolean" -> (IF v.b THEN "true" ELSE "false")
    [] v.t = "array" -> Join(v.a, ",")
    [] OTHER -> "[object Object]"

(***************************************************************************)
(* Property keys are sequences of characters, so that toLowerCase and      *)
(* toUpperCase are computed letter by letter.                              *)
(***************************************************************************)
UpperLetters == <<"A", "B", "C", "D", "E", "F", "G", "H", "I", "J", "K", "L", "M",
                  "N", "O", "P", "Q", "R", "S", "T", "U", "V", "W", "X", "Y", "Z">>

LowerLetters == <<"a", "b", "c", "d", "e", "f", "g", "h", "i", "j", "k", "l", "m",
                  "n", "o", "p", "q", "r", "s", "t", "u", "v", "w", "x", "y", "z">>

LowerChar(c) ==
  IF \E i \in DOMAIN UpperLetters : UpperLetters[i] = c
  THEN LowerLetters[CHOOSE i \in DOMAIN UpperLetters : UpperLetters[i] = c]
  ELSE c

UpperChar(c) ==
  IF \E i \in DOMAIN LowerLetters : LowerLetters[i] = c
  THEN UpperLetters[CHOOSE i \in DOMAIN LowerLetters : LowerLetters[i] = c]
  ELSE c

\* String.prototype.toLowerCase
toLowerCase(k) == [i \in DOMAIN k |-> LowerChar(k[i])]

\* String.prototype.toUpperCase
toUpperCase(k) == [i \in DOMAIN k |-> UpperChar(k[i])]

\* the key as one string
Text(k) == Join(k, "")

\* a string value whose characters the code inspects
StrC(c) == [t |-> "string", s |-> Text(c), c |-> c]

K_base == <<"b", "a", "s", "e">>

K_headers == <<"h", "e", "a", "d", "e", "r", "s">>

K_get == <<"g", "e", "t">>

K_GET == <<"G", "E", "T">>

K_Get == <<"G", "e", "t">>

K_post == <<"p", "o", "s", "t">>

K_put == <<"p", "u", "t">>

K_patch == <<"p", "a", "t", "c", "h">>

K_delete == <<"d", "e", "l", "e", "t", "e">>

K_users == <<"u", "s", "e", "r", "s">>

K_select == <<"s", "e", "l", "e", "c", "t">>

K_execute == <<"e", "x", "e", "c", "u", "t", "e">>

K_then == <<"t", "h", "e", "n">>

K_query == <<"q", "u", "e", "r", "y">>

K_Query == <<"Q", "u", "e", "r", "y">>

K_mutation == <<"m", "u", "t", "a", "t", "i", "o", "n">>

K_subscription == <<"s", "u", "b", "s", "c", "r", "i", "p", "t", "i", "o", "n">>

K_user == <<"u", "s", "e", "r">>

K_fetch == <<"f", "e", "t", "c", "h">>

(***************************************************************************)
(* Header maps: functions from header names to values.                     *)
(***************************************************************************)
NoHeaders == <<>>

\* { ...a, ...b }
Spread(a, b) ==
  [k \in (DOMAIN a) \cup (DOMAIN b) |-> IF k \in DOMAIN b THEN b[k] ELSE a[k]]

(***************************************************************************)
(* URL texts.  A string handed to new URL() is kept in parsed pieces: a    *)
(* scheme ("" when the text has none), a host, the path segments and       *)
(* whether the text ends in a slash.                                       *)
(***************************************************************************)
UrlText(scheme, host, path, slash) ==
  [scheme |-> scheme, host |-> host, path |-> path, slash |-> slash]

\* the text as written by the caller
RawText(u) ==
  (IF u.scheme = "" THEN "" ELSE u.scheme \o "://" \o u.host
     \o (IF Len(u.path) > 0 THEN "/" ELSE ""))
  \o Join(u.path, "/")
  \o (IF u.slash THEN "/" ELSE "")

\* new URL(text) succeeds
Parses(u) == u.scheme # "" /\ u.host # ""

\* URL.prototype.toString of a parsed URL (an empty path is written "/")
Href(u) ==
  u.scheme \o "://" \o u.host \o "/" \o Join(u.path, "/")
  \o (IF u.slash /\ Len(u.path) > 0 THEN "/" ELSE "")

Front(s) == SubSeq(s, 1, Len(s) - 1)

\* new URL(segments.join('/'), base) for plain relative segments
Resolve(segments, base) ==
  IF Len(segments) = 0 THEN base
  ELSE UrlText(base.scheme, base.host,
               (IF base.slash \/ Len(base.path) = 0 THEN base.path
                ELSE Front(base.path)) \o segments,
               FALSE)

(***************************************************************************)
(* Optional values and the two ways a function ends.                       *)
(***************************************************************************)
None == <<>>

Some(v) == <<v>>

\* a ?? b
OrElse(a, b) == IF a = None THEN b ELSE a[1]

\* what { ...h } spreads of an optional header map
OrEmpty(h) == IF h = None THEN NoHeaders ELSE h[1]

Ok(v) == [ok |-> TRUE, value |-> v]

Throw(e) == [ok |-> FALSE, error |-> e]

\* new Error(message), with the fields handleRequestError reads
Error(message) ==
  [t |-> "error", response |-> None, code |-> None, message |-> message]

(***************************************************************************)
(* Validators                                                              *)
(***************************************************************************)
\* validateUrl, had it let every text through
validateUrlLax(url) == Ok(TRUE)

validateUrl(url) ==
  IF Parses(url) THEN Ok(TRUE)
  ELSE Throw(Error("Invalid URL format: " \o RawText(url)))

validateHeaders(headers) ==
  IF ~Truthy(headers) \/ ObjectTag(headers) # "[object Object]"
  THEN Throw(Error("Headers must be a valid object"))
  ELSE Ok(TRUE)

validateGraphQLArgs(args) ==
  IF Truthy(args) /\ ObjectTag(args) # "[object Object]"
  THEN Throw(Error("GraphQL arguments must be an object"))
  ELSE Ok(TRUE)

(***************************************************************************)
(* URLBuilder.build                                                        *)
(***************************************************************************)
RECURSIVE SearchParams(_)
\* the entries appended to url.searchParams, in order
SearchParams(query) ==
  IF Len(query) = 0 THEN <<>>
  ELSE (IF NotNullish(query[1].value)
        THEN <<query[1].key \o "=" \o String(query[1].value)>>
        ELSE <<>>) \o SearchParams(Tail(query))

build(base, segments, query) ==
  IF RawText(base) = "" THEN Throw(Error("Base URL must be a non-empty string"))
  ELSE IF ~Parses(base) THEN Throw(Error("Invalid URL construction: Invalid URL"))
  ELSE LET params == SearchParams(OrElse(query, <<>>))
       IN Ok(Href(Resolve(segments, base))
             \o (IF Len(params) > 0 THEN "?" \o Join(params, "&") ELSE ""))

(***************************************************************************)
(* The instance: new Fetchero({baseUrl, headers, interceptors})            *)
(***************************************************************************)
baseUrl == UrlText("https", "api.example.com", <<>>, FALSE)

\* two instances are considered: one whose default headers name the content
\* type, one whose default headers do not
instanceHeaders == [Accept |-> "json", Auth |-> "inst"]

instanceHeaders2 == ("Content-Type" :> "text/plain") @@ [Auth |-> "inst"]

\* this.headers
thisHeaders == cfg.headers

(***************************************************************************)
(* RestProxyFactory                                                        *)
(***************************************************************************)
HTTP_METHODS == {K_get, K_post, K_put, K_patch, K_delete}

isHttpMethod(method) == toLowerCase(method) \in HTTP_METHODS

\* the state a REST proxy closes over
createProxy(segments, ctx) == [kind |-> "rest", segments |-> segments, ctx |-> ctx]

EmptyCtx == [base |-> None, headers |-> None]

\* what the get trap of a REST proxy returns for a string key
RestGetTrap(o, prop) ==
  IF prop = K_base THEN [ret |-> "baseFn"]
  ELSE IF prop = K_headers THEN [ret |-> "headersFn"]
  ELSE IF isHttpMethod(prop) THEN [ret |-> "verbFn"]
  ELSE [ret |-> "proxy", obj |-> createProxy(Append(o.segments, Text(prop)), o.ctx)]

\* X.<prop> for a key that names a path segment: the heap afterwards
RestGet(heap, x, prop) == Append(heap, RestGetTrap(heap[x], prop).obj)

\* RestBase, had the new proxy started from an empty path
RestBaseResetsPath(heap, x, newBase) ==
  LET v == validateUrl(newBase)
  IN IF ~v.ok THEN v
     ELSE Ok(Append(heap, createProxy(<<>>, [heap[x].ctx EXCEPT !.base = Some(newBase)])))

\* RestBase, had it written the new base into the context object the
\* receiver closes over before handing that object to the new proxy
RestBaseShared(heap, x, newBase) ==
  LET v == validateUrl(newBase)
      ctx == [heap[x].ctx EXCEPT !.base = Some(newBase)]
  IN IF ~v.ok THEN v
     ELSE Ok(Append([heap EXCEPT ![x].ctx = ctx], createProxy(heap[x].segments, ctx)))

\* X.base(newBase): the heap afterwards, or the error thrown
RestBase(heap, x, newBase) ==
  LET v == validateUrl(newBase)
  IN IF ~v.ok THEN v
     ELSE Ok(Append(heap, createProxy(heap[x].segments,
                                       [heap[x].ctx EXCEPT !.base = Some(newBase)])))

\* RestHeaders, had it spread the context headers after the new ones
RestHeadersEarlierWin(heap, x, newHeaders) ==
  LET v == validateHeaders(newHeaders)
  IN IF ~v.ok THEN v
     ELSE Ok(Append(heap, createProxy(heap[x].segments,
            [heap[x].ctx EXCEPT
               !.headers = Some(Spread(newHeaders.m, OrEmpty(heap[x].ctx.headers)))])))

\* X.headers(newHeaders): the heap afterwards, or the error thrown
RestHeaders(heap, x, newHeaders) ==
  LET v == validateHeaders(newHeaders)
  IN IF ~v.ok THEN v
     ELSE Ok(Append(heap, createProxy(heap[x].segments,
            [heap[x].ctx EXCEPT
               !.headers = Some(Spread(OrEmpty(heap[x].ctx.headers), newHeaders.m))])))

RECURSIVE ValidArgs(_)
\* args.filter(arg => arg != null).map(String)
ValidArgs(args) ==
  IF Len(args) = 0 THEN <<>>
  ELSE (IF NotNullish(args[1]) THEN <<String(args[1])>> ELSE <<>>)
       \o ValidArgs(Tail(args))

\* RestApply, had it mapped the arguments to strings without the filter
RestApplyUnfiltered(heap, x, args) ==
  Append(heap, createProxy(heap[x].segments \o [i \in DOMAIN args |-> String(args[i])],
                           heap[x].ctx))

\* X(...args): the heap afterwards
RestApply(heap, x, args) ==
  Append(heap, createProxy(heap[x].segments \o ValidArgs(args), heap[x].ctx))

\* RestDescriptor, had it spread the context headers after the per-call ones
RestDescriptorContextLast(o, prop, options) ==
  LET url == build(OrElse(o.ctx.base, baseUrl), o.segments, options.query)
  IN IF ~url.ok THEN url
     ELSE Ok([url |-> Some(url.value),
              method |-> Text(toUpperCase(prop)),
              data |-> options.body,
              headers |-> Spread(Spread(thisHeaders, OrEmpty(options.headers)),
                                 OrEmpty(o.ctx.headers)),
              timeout |-> None])

\* the descriptor X.<verb>(options) hands to makeRequest, or the error thrown
RestDescriptor(o, prop, options) ==
  LET url == build(OrElse(o.ctx.base, baseUrl), o.segments, options.query)
  IN IF ~url.ok THEN url
     ELSE Ok([url |-> Some(url.value),
              method |-> Text(toUpperCase(prop)),
              data |-> options.body,
              headers |-> Spread(Spread(thisHeaders, OrEmpty(o.ctx.headers)),
                                 OrEmpty(options.headers)),
              timeout |-> None])

(***************************************************************************)
(* GraphQLProxyFactory                                                     *)
(***************************************************************************)
GRAPHQL_OPERATIONS == {K_query, K_mutation, K_subscription}

isValidGraphQLOperation(operation) == operation \in GRAPHQL_OPERATIONS

IsSpace(c) == c = " "

RECURSIVE TrimStart(_)
TrimStart(c) == IF Len(c) > 0 /\ IsSpace(c[1]) THEN TrimStart(Tail(c)) ELSE c

RECURSIVE TrimEnd(_)
TrimEnd(c) == IF Len(c) > 0 /\ IsSpace(c[Len(c)]) THEN TrimEnd(Front(c)) ELSE c

\* String.prototype.trim
trim(c) == TrimEnd(TrimStart(c))

validateFields(fields) ==
  IF fields.t # "string" \/ Len(trim(fields.c)) = 0
  THEN Throw(Error("Field selection must be a non-empty string"))
  ELSE Ok(TRUE)

\* one "name: $name" per argument, in the order of the args object
ArgList(args) == [i \in DOMAIN args |-> args[i].name \o ": $" \o args[i].name]

\* the query-text collaborator: it writes the argument list between the two
\* template parts and returns the args as the variables; a collaborator that
\* fails either throws or returns no query text
buildQuery(parts, args) ==
  CASE cfg.buildQuery = "throws" -> Throw(Error("Build failed"))
    [] cfg.buildQuery = "falsy" -> Ok([query |-> "", variables |-> args])
    [] OTHER -> Ok([query |-> parts[1] \o Join(ArgList(args), ", ") \o parts[2],
                    variables |-> args])

NoArgs == <<>>

\* templateParts, had both forms the same spacing before the selection
templatePartsSymmetric(operation, field, argsObj, selection) ==
  LET select == "{ " \o Text(trim(selection)) \o " }"
  IN IF Len(argsObj) > 0
     THEN <<operation \o " { " \o field \o " (", ") " \o select \o " }">>
     ELSE <<operation \o " { " \o field \o " ", select \o " }">>

\* templateParts, had the no-args form ended with one space before the brace
templatePartsTight(operation, field, argsObj, selection) ==
  LET cleanedSelection == Text(trim(selection))
      select == IF cleanedSelection # "" THEN "{ " \o cleanedSelection \o " }"
                ELSE ""
  IN IF Len(argsObj) > 0
     THEN <<operation \o " { " \o field \o " (", ") " \o select \o " }">>
     ELSE <<operation \o " { " \o field \o " ", select \o " }">>

\* templateParts, had the braces been kept around an empty selection
templatePartsBraced(operation, field, argsObj, selection) ==
  LET select == "{ " \o Text(trim(selection)) \o " }"
  IN IF Len(argsObj) > 0
     THEN <<operation \o " { " \o field \o " (", ") " \o select \o " }">>
     ELSE <<operation \o " { " \o field \o " ", " " \o select \o " }">>

\* the two-part template buildGraphQLOperation hands to buildQuery
templateParts(operation, field, argsObj, selection) ==
  LET cleanedSelection == Text(trim(selection))
      hasArgs == Len(argsObj) > 0
      select == IF cleanedSelection # "" THEN "{ " \o cleanedSelection \o " }"
                ELSE ""
  IN IF hasArgs
     THEN <<operation \o " { " \o field \o " (", ") " \o select \o " }">>
     ELSE <<operation \o " { " \o field \o " ", " " \o select \o " }">>

buildGraphQLOperation(operation, field, argsObj, selection) ==
  IF field = ""
  THEN Throw(Error("Failed to build GraphQL " \o operation \o " for field \""
                   \o field \o "\": Field name must be a non-empty string"))
  ELSE LET result == buildQuery(templateParts(operation, field, argsObj, selection),
                                 argsObj)
       IN IF ~result.ok
          THEN Throw(Error("Failed to build GraphQL " \o operation \o " for field \""
                           \o field \o "\": " \o result.error.message))
          ELSE IF result.value.query = ""
          THEN Throw(Error("Failed to build GraphQL " \o operation \o " for field \""
                           \o field \o "\": Failed to generate valid GraphQL query"))
          ELSE result

\* gql root: the state the root proxy closes over
createGqlProxy(ctx) == [kind |-> "gqlRoot", ctx |-> ctx]

createOperationProxy(operation, ctx) ==
  [kind |-> "gqlOp", operation |-> operation, ctx |-> ctx]

\* the state a query builder closes over (built: the eager buildOperation()),
\* or the error its construction throws
createQueryBuilder(operation, field, argsObj, ctx) ==
  LET built == buildGraphQLOperation(operation, field, argsObj, <<>>)
  IN IF ~built.ok THEN built
     ELSE Ok([kind |-> "builder", operation |-> operation, field |-> field,
              argsObj |-> argsObj, ctx |-> ctx, built |-> built.value])

\* gql.<operation>: the heap afterwards, or the error thrown
GqlRootGet(heap, x, operation) ==
  LET operationType == toLowerCase(operation)
  IN IF ~isValidGraphQLOperation(operationType)
     THEN Throw(Error("Invalid GraphQL operation \"" \o Text(operation)
                      \o "\". Valid operations: query, mutation, subscription"))
     ELSE Ok(Append(heap, createOperationProxy(Text(operationType), heap[x].ctx)))

\* gql.<operation>.<field>: the heap afterwards, or the error thrown
GqlOpGet(heap, x, field) ==
  LET b == createQueryBuilder(heap[x].operation, Text(field), NoArgs, heap[x].ctx)
  IN IF ~b.ok THEN b ELSE Ok(Append(heap, b.value))

\* BuilderGetTrap, had its default case returned undefined
BuilderGetTrapSilent(prop) ==
  IF prop = K_select THEN Ok("selectFn")
  ELSE IF prop = K_execute THEN Ok("executeFn")
  ELSE IF prop = K_then THEN Ok("thenFn")
  ELSE IF prop = K_base THEN Ok("baseFn")
  ELSE IF prop = K_headers THEN Ok("headersFn")
  ELSE Ok("undefined")

\* BuilderGetTrap, had its default case fallen through to execute
BuilderGetTrapLenient(prop) ==
  IF prop = K_select THEN Ok("selectFn")
  ELSE IF prop = K_then THEN Ok("thenFn")
  ELSE IF prop = K_base THEN Ok("baseFn")
  ELSE IF prop = K_headers THEN Ok("headersFn")
  ELSE Ok("executeFn")

\* what the get trap of a query builder returns for a string key
BuilderGetTrap(prop) ==
  IF prop = K_select THEN Ok("selectFn")
  ELSE IF prop = K_execute THEN Ok("executeFn")
  ELSE IF prop = K_then THEN Ok("thenFn")
  ELSE IF prop = K_base THEN Ok("baseFn")
  ELSE IF prop = K_headers THEN Ok("headersFn")
  ELSE Throw(Error("Invalid property \"" \o Text(prop)
        \o "\". Available methods: select(fields), execute(), base(url), headers(obj)"))

\* GqlApply, had the new args been merged into the receiver's
GqlApplyMerged(heap, x, argsObj) ==
  LET v == validateGraphQLArgs(argsObj)
      b == createQueryBuilder(heap[x].operation, heap[x].field,
                              heap[x].argsObj
                                \o (IF Truthy(argsObj) THEN argsObj.m ELSE NoArgs),
                              heap[x].ctx)
  IN IF ~v.ok THEN v ELSE IF ~b.ok THEN b ELSE Ok(Append(heap, b.value))

\* B(argsObj): the heap afterwards, or the error thrown
GqlApply(heap, x, argsObj) ==
  LET v == validateGraphQLArgs(argsObj)
      b == createQueryBuilder(heap[x].operation, heap[x].field,
                              IF Truthy(argsObj) THEN argsObj.m ELSE NoArgs,
                              heap[x].ctx)
  IN IF ~v.ok THEN v ELSE IF ~b.ok THEN b ELSE Ok(Append(heap, b.value))

\* B.base(newBase): the heap afterwards, or the error thrown
GqlBase(heap, x, newBase) ==
  LET v == validateUrl(newBase)
      b == createQueryBuilder(heap[x].operation, heap[x].field, heap[x].argsObj,
                              [heap[x].ctx EXCEPT !.base = Some(newBase)])
  IN IF ~v.ok THEN v ELSE IF ~b.ok THEN b ELSE Ok(Append(heap, b.value))

\* B.headers(newHeaders): the heap afterwards, or the error thrown
GqlHeaders(heap, x, newHeaders) ==
  LET v == validateHeaders(newHeaders)
      b == createQueryBuilder(heap[x].operation, heap[x].field, heap[x].argsObj,
             [heap[x].ctx EXCEPT
                !.headers = Some(Spread(OrEmpty(heap[x].ctx.headers), newHeaders.m))])
  IN IF ~v.ok THEN v ELSE IF ~b.ok THEN b ELSE Ok(Append(heap, b.value))

\* the descriptor executeGraphQLQuery hands to makeRequest, or the rejection
\* executeGraphQLQuery, had it taken the url from the context alone
executeGraphQLQueryContextOnly(query, variables, ctx) ==
  IF query = "" THEN Throw(Error("GraphQL query must be a non-empty string"))
  ELSE Ok([url |-> IF ctx.base = None THEN None ELSE Some(RawText(ctx.base[1])),
           method |-> "POST",
           data |-> [t |-> "graphql", query |-> query, variables |-> variables],
           headers |-> Spread(Spread("Content-Type" :> "application/json",
                                     thisHeaders),
                              OrEmpty(ctx.headers)),
           timeout |-> None])

executeGraphQLQuery(query, variables, ctx) ==
  IF query = "" THEN Throw(Error("GraphQL query must be a non-empty string"))
  ELSE Ok([url |-> Some(RawText(OrElse(ctx.base, baseUrl))),
           method |-> "POST",
           data |-> [t |-> "graphql", query |-> query, variables |-> variables],
           headers |-> Spread(Spread("Content-Type" :> "application/json",
                                     thisHeaders),
                              OrEmpty(ctx.headers)),
           timeout |-> None])

\* B.select(selectedFields): thrown at the call (sync), or the descriptor
GqlSelect(o, selectedFields) ==
  LET v == validateFields(selectedFields)
      rebuilt == buildGraphQLOperation(o.operation, o.field, o.argsObj,
                                       selectedFields.c)
  IN IF ~v.ok THEN [sync |-> TRUE, res |-> v]
     ELSE IF ~rebuilt.ok THEN [sync |-> TRUE, res |-> rebuilt]
     ELSE [sync |-> FALSE,
           res |-> executeGraphQLQuery(rebuilt.value.query, rebuilt.value.variables,
                                       o.ctx)]

\* B.execute() and B.then(resolve, reject): the descriptor from the cached build
GqlExecute(o) ==
  [sync |-> FALSE,
   res |-> executeGraphQLQuery(o.built.query, o.built.variables, o.ctx)]

(***************************************************************************)
(* ErrorHandler                                                            *)
(***************************************************************************)
\* the message of a raw error: a string or an object of field messages
MsgObj(vals) == [t |-> "object", vals |-> vals]

\* a raw error's extensions: code and message may be absent
Ext(code, message, extra) == [code |-> code, message |-> message, extra |-> extra]

\* x || '' for an optional string-or-object
OrBlank(x) == IF x = None \/ ~Truthy(x[1]) THEN Str("") ELSE x[1]

\* { message, extensions: { code, ...extensions } }
formatErrorCode(code, extensions, message) ==
  [message |-> Some(message),
   extensions |-> [extensions EXCEPT
                     !.code = IF extensions.code = None THEN Some(code) ELSE @]]

\* { extensions: { message, ...extensions } }
formatErrorMessage(e) ==
  [extensions |-> [e.extensions EXCEPT
                     !.message = IF e.extensions.message = None THEN e.message ELSE @]]

\* the members an object literal inherits from Object.prototype
ObjectPrototypeKeys ==
  {"constructor", "toString", "toLocaleString", "valueOf", "hasOwnProperty",
   "isPrototypeOf", "propertyIsEnumerable"}

\* defaultMessages[key] for an inherited member: a function
Inherited(key) == [t |-> "function", name |-> key]

formatErrorResponse(e) ==
  LET code == e.extensions.code
      \* const { code, message = '' } = extensions
      message == IF e.extensions.message \in {None, Some(Undefined)}
                 THEN Str("")
                 ELSE e.extensions.message[1]
      processedMessage ==
        IF code = Some(Str("422")) /\ message.t = "object"
        THEN Str(Join(message.vals, ", "))
        ELSE message
      \* defaultMessages[code]: the property key is String(code)
      key == String(code[1])
      defaultMessage ==
        CASE key \in {"401", "404", "500"} -> Some(message)
          [] key = "422" -> Some(processedMessage)
          [] key = "BAD_USER_INPUT" -> Some(Str("Input is not valid"))
          [] key = "INTERNAL_SERVER_ERROR" -> Some(Str("Internal Server Error"))
          [] key \in ObjectPrototypeKeys -> Some(Inherited(key))
          [] OTHER -> None
  IN [extensions |->
        [code |-> code,
         message |-> IF code # None /\ Truthy(code[1])
                     THEN (IF defaultMessage # None /\ Truthy(defaultMessage[1])
                           THEN defaultMessage[1]
                           ELSE Str("Unknown error"))
                     ELSE Str("")]]

\* ErrorHandler.compose(error): the normalized error, or the TypeError thrown
\* when the raw error has no extensions
compose(error) ==
  IF error.extensions = None
  THEN Throw(Error("Cannot read properties of undefined (reading 'code')"))
  ELSE LET ext == error.extensions[1]
       IN Ok(formatErrorResponse(formatErrorMessage(
               formatErrorCode(OrBlank(ext.code), ext, OrBlank(ext.message)))))

makeErrorResponse(code, message) ==
  [message |-> "Internal Server Error",
   extensions |-> [message |-> message, error |-> TRUE, code |-> ToString(code)]]

(***************************************************************************)
(* HttpClient                                                              *)
(***************************************************************************)
DefaultTimeout == 30000

\* an AxiosError-like failure
Failure(response, code, message) ==
  [t |-> "error", response |-> response, code |-> code, message |-> message]

\* handleRequestError(err): the envelope returned, or the TypeError thrown by
\* reading a property of null or undefined
handleRequestError(err) ==
  IF ~NotNullish(err)
  THEN Throw(Error("Cannot read properties of " \o err.t \o " (reading 'response')"))
  ELSE LET response == IF err.t = "error" THEN err.response ELSE None
           code == IF err.t = "error" THEN err.code ELSE None
           own == IF err.t = "error" THEN err.message ELSE ""
           data == IF response = None THEN None ELSE response[1].data
           dataMessage == IF data = None THEN None ELSE data[1].message
           dataError == IF data = None THEN None ELSE data[1].error
           status ==
             IF response # None /\ response[1].status # None THEN response[1].status[1]
             ELSE IF code = Some("ECONNABORTED") THEN 408 ELSE 500
           message ==
             IF dataMessage # None /\ dataMessage[1] # "" THEN dataMessage[1]
             ELSE IF dataError # None /\ dataError[1] # "" THEN dataError[1]
             ELSE IF code = Some("ECONNABORTED") THEN "Request timeout"
             ELSE IF code = Some("ENOTFOUND") \/ code = Some("ECONNREFUSED")
             THEN "Network connection failed"
             ELSE IF own # "" THEN own ELSE "Network request failed"
       IN Ok([data |-> Null, errors |-> Some(<<makeErrorResponse(status, message)>>)])

Fulfilled(value) == [state |-> "fulfilled", value |-> value]

Rejected(reason) == [state |-> "rejected", reason |-> reason]

\* the catch block of makeRequest; cause records where the failure came from
Catch(c, err, cause) ==
  LET r == handleRequestError(err)
  IN [c EXCEPT !.pc = "done", !.cause = cause, !.thrown = Some(err),
               !.settled = Some(IF r.ok THEN Fulfilled(r.value) ELSE Rejected(r.error))]

\* lines 44-52: the default timeout, then axios(finalConfig)
Send(c, finalConfig) ==
  [c EXCEPT !.pc = "transport", !.nSend = @ + 1, !.final = Some(finalConfig),
            !.sent = Some(IF finalConfig.timeout = None \/ finalConfig.timeout[1] = 0
                          THEN [finalConfig EXCEPT !.timeout = Some(DefaultTimeout)]
                          ELSE finalConfig)]

\* Enter, had it lacked the url check
EnterUnchecked(c, hasRequestHook) ==
  IF hasRequestHook THEN [c EXCEPT !.pc = "requestHook", !.nReq = @ + 1]
  ELSE Send(c, c.config[1])

\* makeRequest(config) up to its first suspension point
Enter(c, hasRequestHook) ==
  IF c.config[1].url = None \/ c.config[1].url[1] = ""
  THEN Catch(c, Error("Request URL is required"), "missingUrl")
  ELSE IF hasRequestHook THEN [c EXCEPT !.pc = "requestHook", !.nReq = @ + 1]
  ELSE Send(c, c.config[1])

\* AfterRequestHook, had the descriptor given to the hook been sent instead
\* of the one it returned
AfterRequestHookDiscarded(c, outcome) ==
  IF ~outcome.ok THEN Catch(c, outcome.error, "requestHook")
  ELSE Send(c, c.config[1])

\* the request hook settles: it returned a descriptor, returned nothing, or threw
AfterRequestHook(c, outcome) ==
  IF ~outcome.ok THEN Catch(c, outcome.error, "requestHook")
  ELSE IF outcome.value = None
  THEN Catch(c, Error("Cannot read properties of undefined (reading 'timeout')"),
             "requestHookOutput")
  ELSE Send(c, outcome.value[1])

RECURSIVE ComposeAll(_)
\* errors.map(error => ErrorHandler.compose(error)): the first throw ends the map
ComposeAll(errors) ==
  IF Len(errors) = 0 THEN Ok(<<>>)
  ELSE LET head == compose(errors[1])
           rest == ComposeAll(Tail(errors))
       IN IF ~head.ok THEN head
          ELSE IF ~rest.ok THEN rest
          ELSE Ok(<<head.value>> \o rest.value)

\* lines 54-65: the envelope built from the transport's result
BuildResponse(result) ==
  LET payload == result.data
      empty == ~Truthy(payload)
      responseData == IF empty THEN None ELSE payload.data
      errors == IF empty THEN None ELSE payload.errors
      data == IF responseData = None \/ ~NotNullish(responseData[1]) THEN Null
              ELSE responseData[1]
  IN IF errors # None /\ errors[1].t = "array" /\ Len(errors[1].a) > 0
     THEN LET mapped == ComposeAll(errors[1].a)
          IN IF ~mapped.ok THEN mapped
             ELSE Ok([data |-> data, errors |-> Some(mapped.value)])
     ELSE Ok([data |-> data, errors |-> None])

\* the transport settles: a result (possibly undefined) or a failure
AfterTransport(c, outcome, hasResponseHook) ==
  IF ~outcome.ok THEN Catch(c, outcome.error, "transport")
  ELSE IF ~NotNullish(outcome.value)
  THEN Catch(c, Error("Cannot read properties of undefined (reading 'data')"),
             "transportOutput")
  ELSE LET response == BuildResponse(outcome.value)
           got == [c EXCEPT !.result = Some(outcome.value)]
       IN IF ~response.ok THEN Catch(got, response.error, "compose")
          ELSE IF hasResponseHook
          THEN [got EXCEPT !.pc = "responseHook", !.nResp = @ + 1,
                           !.raw = Some(outcome.value)]
          ELSE [got EXCEPT !.pc = "done",
                           !.settled = Some(Fulfilled(response.value))]

\* the response hook settles: its output is what the call resolves to
AfterResponseHook(c, outcome) ==
  IF ~outcome.ok THEN Catch(c, outcome.error, "responseHook")
  ELSE [c EXCEPT !.pc = "done", !.hooked = Some(outcome.value),
                 !.settled = Some(Fulfilled(outcome.value))]

\* a terminal call before makeRequest has run: x is the chain object it was
\* made through, via the key, arg the argument; final is the descriptor after
\* the request hook, sent the one handed to the transport, result what the
\* transport returned, raw what the response hook was given, hooked what it
\* returned
NewCall(x, via, arg, config) ==
  [x |-> x, via |-> via, arg |-> arg, config |-> Some(config), pc |-> "start",
   final |-> None, sent |-> None, result |-> None, raw |-> None,
   hooked |-> None, settled |-> None, cause |-> "none", thrown |-> None,
   nReq |-> 0, nSend |-> 0, nResp |-> 0]

\* a terminal function whose async body throws before makeRequest is reached
RejectedCall(x, via, arg, err) ==
  [x |-> x, via |-> via, arg |-> arg, config |-> None, pc |-> "done",
   final |-> None, sent |-> None, result |-> None, raw |-> None,
   hooked |-> None, settled |-> Some(Rejected(err)), cause |-> "descriptor",
   thrown |-> Some(err), nReq |-> 0, nSend |-> 0, nResp |-> 0]

(***************************************************************************)
(* The inputs the environment draws from.                                  *)
(***************************************************************************)
Base1 == UrlText("https", "api2.example.com", <<>>, FALSE)

Base2 == UrlText("https", "api3.example.com", <<"v2">>, TRUE)

NotAUrl == UrlText("", "", <<"not-a-url">>, FALSE)

\* base('')
EmptyUrl == UrlText("", "", <<>>, FALSE)

Bases == {Base1, Base2, NotAUrl, EmptyUrl}

Headers1 == Obj([Auth |-> "ctx", Lang |-> "en"])

Headers2 == Obj([Auth |-> "ctx2", Trace |-> "on"])

HeaderArgs == {Headers1, Headers2, Null, Arr(<<>>), Str("x")}

RestKeys == {K_users, K_GET, K_get, K_base}

ArgLists == {<<Null, Num(123), Undefined, Str("posts")>>}

NoOptions == [query |-> None, body |-> Undefined, headers |-> None]

FullOptions ==
  [query |-> Some(<<[key |-> "page", value |-> Num(0)],
                    [key |-> "limit", value |-> Null]>>),
   body |-> Str("payload"),
   headers |-> Some([Auth |-> "call", Accept |-> "xml"])]

\* the verb calls made: X.get(), X.GET(), X.post(options)
RestCalls ==
  {<<K_get, NoOptions>>, <<K_GET, NoOptions>>, <<K_post, FullOptions>>}

GqlRootKeys == {K_query, K_Query, K_fetch}

GqlFields == {K_user, <<>>}

BuilderKeys == {K_select, K_execute, K_then, K_base, K_headers, K_fetch}

Args1 == Obj(<<[name |-> "id", value |-> Num(123)]>>)

Args2 == Obj(<<[name |-> "first", value |-> Num(5)]>>)

GqlArgs == {Undefined, Args1, Args2, Str("id")}

Fields1 == StrC(<<"i", "d", " ", "n", "a", "m", "e">>)

\* the calls made on a builder: B.select(fields), B.execute(), await B, and
\* B.fetch() for a key the builder does not know
GqlCalls ==
  {<<K_select, Fields1>>, <<K_select, StrC(<<" ">>)>>, <<K_select, Null>>,
   <<K_execute, Undefined>>, <<K_then, Undefined>>, <<K_fetch, Undefined>>}

\* an error response: its status and the message and error fields of its payload
ErrResponse(status, message, error) ==
  Some([status |-> status, data |-> Some([message |-> message, error |-> error])])

Failures ==
  {Error("Interceptor error"),
   Failure(None, Some("ECONNABORTED"), "timeout of 30000ms exceeded"),
   Failure(ErrResponse(Some(404), Some("Not found"), None), None,
           "Request failed with status code 404"),
   Failure(ErrResponse(Some(400), None, Some("Invalid input")), None, "Bad request"),
   Failure(ErrResponse(Some(409), Some("Conflict"), Some("E_CONFLICT")), None, "x"),
   Failure(Some([status |-> Some(503), data |-> None]), Some("ECONNABORTED"), ""),
   Failure(ErrResponse(None, Some(""), Some("")), None, "socket hang up"),
   Failure(None, Some("ECONNREFUSED"), "connect ECONNREFUSED"),
   Failure(None, Some("ENOTFOUND"), "getaddrinfo ENOTFOUND"),
   Failure(None, None, "")}

\* the values a hook or the transport may throw
Thrown(world) ==
  IF world = "direct" THEN {Null, Undefined, Str("boom")} \cup Failures
  ELSE {Null, Error("Interceptor error")}

\* what a request hook may hand back for a descriptor
RequestHookOutcomes(world, config) ==
  {Ok(Some(config))}
  \cup (IF world = "direct"
        THEN {Ok(Some([config EXCEPT !.timeout = Some(5000)])),
              Ok(Some([config EXCEPT !.timeout = Some(0)])),
              Ok(Some([config EXCEPT !.url = None])), Ok(None)}
        ELSE {})
  \cup {Throw(e) : e \in Thrown(world)}

Response(payload) == [t |-> "response", data |-> payload, status |-> 200]

Payload(data, errors) == [t |-> "payload", data |-> data, errors |-> errors]

RawError(extensions) == [extensions |-> extensions, message |-> Some(Str("raw"))]

\* two raw errors as a server sends them
RawError404 == RawError(Some(Ext(Some(Str("404")), Some(Str("gone")), [path |-> "a"])))

RawError400 == RawError(Some(Ext(Some(Str("400")), None, <<>>)))

TransportOutcomes(world) ==
  {Ok(Response(Payload(Some(Str("D")), None)))}
  \cup (IF world = "direct"
        THEN {Ok(Undefined), Ok(Response(Undefined)), Ok(Response(Null)),
              Ok(Response(Payload(None, None))),
              Ok(Response(Payload(Some(Null), Some(Arr(<<>>))))),
              Ok(Response(Payload(Some(Str("D")), Some(Str("oops"))))),
              Ok(Response(Payload(None, Some(Arr(<<RawError404>>))))),
              Ok(Response(Payload(Some(Str("D")),
                                  Some(Arr(<<RawError400, RawError404>>))))),
              Ok(Response(Payload(Some(Str("D")), Some(Arr(<<RawError(None)>>)))))}
        ELSE {})
  \cup {Throw(e) : e \in Thrown(world)}

ResponseHookOutcomes(world) ==
  {Ok(Str("hooked"))} \cup {Throw(e) : e \in Thrown(world)}

DirectConfigs ==
  {[url |-> u, method |-> "GET", data |-> Undefined, headers |-> NoHeaders,
    timeout |-> t] :
     u \in {None, Some(""), Some("https://api.example.com/users")},
     t \in {None, Some(0), Some(5000)}}

(***************************************************************************)
(* The state machine.  The caller awaits each terminal call before its     *)
(* next step (Await), which drops the settled promise.                     *)
(***************************************************************************)
Returned(op, key, ret) == [op |-> op, key |-> key, ret |-> ret, error |-> ""]

Threw(op, key, err) == [op |-> op, key |-> key, ret |-> "threw", error |-> err.message]

Link(parent, step) == [parent |-> parent, step |-> step]

\* the instances considered: behind .rest and .gql, one with both interceptors
\* and the first default headers and one with no interceptor and the second;
\* behind .gql also two whose buildQuery fails; for makeRequest on its own,
\* every combination of interceptors
Instances(world) ==
  IF world = "direct"
  THEN [world : {world}, requestHook : BOOLEAN, responseHook : BOOLEAN,
        headers : {instanceHeaders}, buildQuery : {"ok"}]
  ELSE {[world |-> world, requestHook |-> TRUE, responseHook |-> TRUE,
         headers |-> instanceHeaders, buildQuery |-> "ok"],
        [world |-> world, requestHook |-> FALSE, responseHook |-> FALSE,
         headers |-> instanceHeaders2, buildQuery |-> "ok"]}
       \cup (IF world = "gql"
             THEN [world : {world}, requestHook : {FALSE}, responseHook : {FALSE},
                   headers : {instanceHeaders2}, buildQuery : {"throws", "falsy"}]
             ELSE {})

InitIn(worlds) ==
  /\ cfg \in UNION {Instances(world) : world \in worlds}
  /\ objs = (CASE cfg.world = "rest" -> <<createProxy(<<>>, EmptyCtx)>>
               [] cfg.world = "gql" -> <<createGqlProxy(EmptyCtx)>>
               [] OTHER -> <<>>)
  /\ chain = [i \in DOMAIN objs |-> Link(0, [op |-> "root"])]
  /\ last = Returned("init", "", "proxy")
  /\ calls = <<>>

Init == InitIn({"rest", "gql"})

InitEngine == InitIn({"direct"})

NoCallPending == calls = <<>>

HasRoom ==
  Len(objs) <= (IF cfg.world = "rest" THEN MaxRestObjs ELSE MaxGqlObjs)

\* a chain step that ended in a new chain object h[Len(h)]
Grow(h, x, step, op, key) ==
  /\ HasRoom
  /\ objs' = h
  /\ chain' = Append(chain, Link(x, step))
  /\ last' = Returned(op, key, "proxy")
  /\ UNCHANGED <<calls, cfg>>

\* a chain step that returned a function or threw: no chain object is made
Stay(l) ==
  /\ last' = l
  /\ UNCHANGED <<objs, chain, calls, cfg>>

\* X.<prop> on a REST chain object
RestAccess(x, prop) ==
  /\ NoCallPending
  /\ objs[x].kind = "rest"
  /\ LET r == RestGetTrap(objs[x], prop)
     IN IF r.ret = "proxy"
        THEN Grow(RestGet(objs, x, prop), x, [op |-> "get", key |-> Text(prop)],
                  "get", Text(prop))
        ELSE Stay(Returned("get", Text(prop), r.ret))

\* X(...args) on a REST chain object
RestInvoke(x, args) ==
  /\ NoCallPending
  /\ objs[x].kind = "rest"
  /\ Grow(RestApply(objs, x, args), x, [op |-> "apply", args |-> args], "apply", "")

\* X.base(newBase) on a REST chain object
RestSetBase(x, newBase) ==
  /\ NoCallPending
  /\ objs[x].kind = "rest"
  /\ LET r == RestBase(objs, x, newBase)
     IN IF r.ok
        THEN Grow(r.value, x, [op |-> "base", base |-> newBase], "base", "base")
        ELSE Stay(Threw("base", "base", r.error))

\* X.headers(newHeaders) on a REST chain object
RestSetHeaders(x, newHeaders) ==
  /\ NoCallPending
  /\ objs[x].kind = "rest"
  /\ LET r == RestHeaders(objs, x, newHeaders)
     IN IF r.ok
        THEN Grow(r.value, x, [op |-> "headers", headers |-> newHeaders],
                  "headers", "headers")
        ELSE Stay(Threw("headers", "headers", r.error))

\* a terminal function was called and returned its promise
Begin(c) ==
  /\ NoCallPending
  /\ calls' = <<c>>
  /\ last' = Returned("call", c.via, "promise")
  /\ UNCHANGED <<objs, chain, cfg>>

\* X.<prop>(options) for a key the get trap answers with the verb function
RestCall(x, prop, options) ==
  /\ NoCallPending
  /\ objs[x].kind = "rest"
  /\ RestGetTrap(objs[x], prop).ret = "verbFn"
  /\ LET d == RestDescriptor(objs[x], prop, options)
     IN Begin(IF d.ok
              THEN Enter(NewCall(x, Text(prop), options, d.value), cfg.requestHook)
              ELSE RejectedCall(x, Text(prop), options, d.error))

\* gql.<operation>
GqlRootAccess(x, operation) ==
  /\ NoCallPending
  /\ objs[x].kind = "gqlRoot"
  /\ LET r == GqlRootGet(objs, x, operation)
     IN IF r.ok
        THEN Grow(r.value, x, [op |-> "get", key |-> Text(operation)],
                  "get", Text(operation))
        ELSE Stay(Threw("get", Text(operation), r.error))

\* gql.<operation>.<field>
GqlOpAccess(x, field) ==
  /\ NoCallPending
  /\ objs[x].kind = "gqlOp"
  /\ LET r == GqlOpGet(objs, x, field)
     IN IF r.ok
        THEN Grow(r.value, x, [op |-> "get", key |-> Text(field)], "get", Text(field))
        ELSE Stay(Threw("get", Text(field), r.error))

\* B.<prop> on a query builder, without calling what it returns
BuilderAccess(x, prop) ==
  /\ NoCallPending
  /\ objs[x].kind = "builder"
  /\ LET r == BuilderGetTrap(prop)
     IN IF r.ok THEN Stay(Returned("get", Text(prop), r.value))
        ELSE Stay(Threw("get", Text(prop), r.error))

\* B(argsObj)
GqlInvoke(x, argsObj) ==
  /\ NoCallPending
  /\ objs[x].kind = "builder"
  /\ LET r == GqlApply(objs, x, argsObj)
     IN IF r.ok THEN Grow(r.value, x, [op |-> "apply", args |-> argsObj], "apply", "")
        ELSE Stay(Threw("apply", "", r.error))

\* B.base(newBase)
GqlSetBase(x, newBase) ==
  /\ NoCallPending
  /\ objs[x].kind = "builder"
  /\ LET r == GqlBase(objs, x, newBase)
     IN IF r.ok
        THEN Grow(r.value, x, [op |-> "base", base |-> newBase], "base", "base")
        ELSE Stay(Threw("base", "base", r.error))

\* B.headers(newHeaders)
GqlSetHeaders(x, newHeaders) ==
  /\ NoCallPending
  /\ objs[x].kind = "builder"
  /\ LET r == GqlHeaders(objs, x, newHeaders)
     IN IF r.ok
        THEN Grow(r.value, x, [op |-> "headers", headers |-> newHeaders],
                  "headers", "headers")
        ELSE Stay(Threw("headers", "headers", r.error))

\* B.<prop>(arg): the get trap throws for an unknown key; select, execute and
\* then start a request (base and headers are GqlSetBase and GqlSetHeaders)
GqlCall(x, prop, arg) ==
  /\ NoCallPending
  /\ objs[x].kind = "builder"
  /\ LET t == BuilderGetTrap(prop)
     IN IF ~t.ok THEN Stay(Threw("get", Text(prop), t.error))
        ELSE /\ t.value \in {"selectFn", "executeFn", "thenFn"}
             /\ LET r == IF t.value = "selectFn" THEN GqlSelect(objs[x], arg)
                         ELSE GqlExecute(objs[x])
                IN IF r.sync /\ ~r.res.ok
                   THEN Stay(Threw("call", Text(prop), r.res.error))
                   ELSE Begin(IF r.res.ok
                              THEN Enter(NewCall(x, Text(prop), arg, r.res.value),
                                         cfg.requestHook)
                              ELSE RejectedCall(x, Text(prop), arg, r.res.error))

\* httpClient.makeRequest(config) called on its own
DirectCall(config) ==
  Begin(Enter(NewCall(0, "makeRequest", Undefined, config), cfg.requestHook))

\* the caller's await returns (or throws) once every call has settled
Await ==
  /\ calls # <<>>
  /\ \A i \in DOMAIN calls : calls[i].pc = "done"
  /\ calls' = <<>>
  /\ last' = Returned("await", "", "settled")
  /\ UNCHANGED <<objs, chain, cfg>>

Resume(i, c) ==
  /\ calls' = [calls EXCEPT ![i] = c]
  /\ UNCHANGED <<objs, chain, last, cfg>>

RequestHookSettles(i, outcome) ==
  /\ calls[i].pc = "requestHook"
  /\ Resume(i, AfterRequestHook(calls[i], outcome))

TransportSettles(i, outcome) ==
  /\ calls[i].pc = "transport"
  /\ Resume(i, AfterTransport(calls[i], outcome, cfg.responseHook))

ResponseHookSettles(i, outcome) ==
  /\ calls[i].pc = "responseHook"
  /\ Resume(i, AfterResponseHook(calls[i], outcome))

Next ==
  \/ \E x \in DOMAIN objs, prop \in RestKeys : RestAccess(x, prop)
  \/ \E x \in DOMAIN objs, args \in ArgLists : RestInvoke(x, args)
  \/ \E x \in DOMAIN objs, newBase \in Bases : RestSetBase(x, newBase)
  \/ \E x \in DOMAIN objs, newHeaders \in HeaderArgs : RestSetHeaders(x, newHeaders)
  \/ \E x \in DOMAIN objs, c \in RestCalls : RestCall(x, c[1], c[2])
  \/ \E x \in DOMAIN objs, operation \in GqlRootKeys : GqlRootAccess(x, operation)
  \/ \E x \in DOMAIN objs, field \in GqlFields : GqlOpAccess(x, field)
  \/ \E x \in DOMAIN objs, prop \in BuilderKeys : BuilderAccess(x, prop)
  \/ \E x \in DOMAIN objs, argsObj \in GqlArgs : GqlInvoke(x, argsObj)
  \/ \E x \in DOMAIN objs, newBase \in Bases : GqlSetBase(x, newBase)
  \/ \E x \in DOMAIN objs, newHeaders \in HeaderArgs : GqlSetHeaders(x, newHeaders)
  \/ \E x \in DOMAIN objs, c \in GqlCalls : GqlCall(x, c[1], c[2])
  \/ \E i \in DOMAIN calls :
       \E outcome \in RequestHookOutcomes(cfg.world, calls[i].config[1]) :
         RequestHookSettles(i, outcome)
  \/ \E i \in DOMAIN calls, outcome \in TransportOutcomes(cfg.world) :
       TransportSettles(i, outcome)
  \/ \E i \in DOMAIN calls, outcome \in ResponseHookOutcomes(cfg.world) :
       ResponseHookSettles(i, outcome)
  \/ Await

Spec == Init /\ [][Next]_vars

NextEngine ==
  \/ \E config \in DirectConfigs : DirectCall(config)
  \/ \E i \in DOMAIN calls :
       \E outcome \in RequestHookOutcomes(cfg.world, calls[i].config[1]) :
         RequestHookSettles(i, outcome)
  \/ \E i \in DOMAIN calls, outcome \in TransportOutcomes(cfg.world) :
       TransportSettles(i, outcome)
  \/ \E i \in DOMAIN calls, outcome \in ResponseHookOutcomes(cfg.world) :
       ResponseHookSettles(i, outcome)
  \/ Await

SpecEngine == InitEngine /\ [][NextEngine]_vars

(***************************************************************************)
(* ErrorHandler.compose on its own: the caller hands it one raw error.     *)
(***************************************************************************)
\* codes a raw error carries: absent, falsy, the table's keys as strings and
\* as numbers, codes outside the table, and a member of Object.prototype
RawCodes ==
  {None, Some(Str("")), Some(Null), Some(Str("401")), Some(Str("404")),
   Some(Str("500")), Some(Str("422")), Some(Str("BAD_USER_INPUT")),
   Some(Str("INTERNAL_SERVER_ERROR")), Some(Str("400")), Some(Str("UNKNOWN")),
   Some(Num(404)), Some(Num(422)), Some(Str("constructor"))}

RawMessages ==
  {None, Some(Undefined), Some(Null), Some(Str("")), Some(Str("Validation failed")),
   Some(MsgObj(<<"Error 1", "Error 2">>)), Some(MsgObj(<<>>))}

RawExtras == {<<>>, [customField |-> "custom value"]}

RawErrors ==
  [extensions : {Some(Ext(code, message, extra)) :
                   code \in RawCodes, message \in RawMessages, extra \in RawExtras}
                \cup {None},
   message : {None, Some(Str("raw"))}]

InitNormalizer ==
  /\ cfg = [world |-> "normalizer", requestHook |-> FALSE, responseHook |-> FALSE,
            headers |-> NoHeaders, buildQuery |-> "ok"]
  /\ objs = <<>>
  /\ chain = <<>>
  /\ last = Returned("init", "", "")
  /\ calls = <<>>

\* ErrorHandler.compose(error)
Compose(error) ==
  /\ last' = [op |-> "compose", arg |-> error, res |-> compose(error)]
  /\ UNCHANGED <<objs, chain, calls, cfg>>

NextNormalizer == \E error \in RawErrors : Compose(error)

SpecNormalizer == InitNormalizer /\ [][NextNormalizer]_vars

(***************************************************************************)
(* A query builder on its own: the caller holds gql.<operation>.<field> or *)
(* gql.<operation>.<field>(args) and makes terminal calls on it.           *)
(***************************************************************************)
Args3 == Obj(<<[name |-> "id", value |-> Num(123)], [name |-> "first", value |-> Num(5)]>>)

\* a selection with white space around it
Fields2 == StrC(<<" ", "i", "d", " ">>)

Builders ==
  {createQueryBuilder(Text(operation), Text(field), args.m, EmptyCtx).value :
     operation \in GRAPHQL_OPERATIONS, field \in {K_user},
     args \in {Obj(NoArgs), Args1, Args3}}

BuilderCalls == GqlCalls \cup {<<K_select, Fields2>>}

\* the values a builder is invoked with: absent, plain objects, and values
\* that are not objects, truthy and falsy
InvokeArgs ==
  {Undefined, Null, Args2, Str("id"), Num(123), Bool(TRUE), Arr(<<>>),
   Str(""), Num(0)}

MayDerive == Len(objs) <= MaxSiblings

InitBuilder ==
  /\ cfg \in {i \in Instances("gql") : i.buildQuery = "ok"}
  /\ objs \in {<<b>> : b \in Builders}
  /\ chain = <<Link(0, [op |-> "root"])>>
  /\ last = Returned("init", "", "proxy")
  /\ calls = <<>>

NextBuilder ==
  \/ \E x \in DOMAIN objs, c \in BuilderCalls : GqlCall(x, c[1], c[2])
  \/ \E x \in DOMAIN objs, argsObj \in InvokeArgs :
       MayDerive /\ GqlInvoke(x, argsObj)
  \/ \E x \in DOMAIN objs, newBase \in Bases : MayDerive /\ GqlSetBase(x, newBase)
  \/ \E x \in DOMAIN objs, newHeaders \in HeaderArgs :
       MayDerive /\ GqlSetHeaders(x, newHeaders)
  \/ \E i \in DOMAIN calls :
       \E outcome \in RequestHookOutcomes(cfg.world, calls[i].config[1]) :
         RequestHookSettles(i, outcome)
  \/ \E i \in DOMAIN calls, outcome \in TransportOutcomes(cfg.world) :
       TransportSettles(i, outcome)
  \/ \E i \in DOMAIN calls, outcome \in ResponseHookOutcomes(cfg.world) :
       ResponseHookSettles(i, outcome)
  \/ Await

SpecBuilder == InitBuilder /\ [][NextBuilder]_vars

(***************************************************************************)
(* Terminal calls issued without awaiting the earlier ones, through two    *)
(* sibling chain objects of one instance, with a request hook that may     *)
(* change the descriptor it is given in place.                             *)
(***************************************************************************)
SiblingCtx == [base |-> Some(Base1), headers |-> None]

\* gql.query.user(a1) and gql.query.user(a1).base(u); rest.users and
\* rest.users.base(u)
Siblings(world) ==
  IF world = "gql"
  THEN <<createQueryBuilder("query", "user", Args1.m, EmptyCtx).value,
         createQueryBuilder("query", "user", Args1.m, SiblingCtx).value>>
  ELSE <<createProxy(<<"users">>, EmptyCtx), createProxy(<<"users">>, SiblingCtx)>>

InitConcurrent ==
  /\ cfg \in [world : {"rest", "gql"}, requestHook : {TRUE}, responseHook : BOOLEAN,
               headers : {instanceHeaders}, buildQuery : {"ok"}]
  /\ objs = Siblings(cfg.world)
  /\ chain = <<Link(0, [op |-> "root"]), Link(1, [op |-> "base", base |-> Base1])>>
  /\ last = Returned("init", "", "proxy")
  /\ calls = <<>>

\* a terminal function was called while earlier calls are pending
BeginAlso(c) ==
  /\ Len(calls) < MaxPending
  /\ calls' = Append(calls, c)
  /\ last' = Returned("call", c.via, "promise")
  /\ UNCHANGED <<objs, chain, cfg>>

\* X.get(), X.post(options), B.execute() or B.select(fields)
ConcurrentCall(x, prop, arg) ==
  LET d == IF objs[x].kind = "rest" THEN RestDescriptor(objs[x], prop, arg)
           ELSE IF prop = K_select THEN GqlSelect(objs[x], arg).res
           ELSE GqlExecute(objs[x]).res
  IN /\ objs[x].kind = "rest" <=> prop \in HTTP_METHODS
     /\ d.ok
     /\ BeginAlso(Enter(NewCall(x, Text(prop), arg, d.value), cfg.requestHook))

ConcurrentCalls ==
  {<<K_get, NoOptions>>, <<K_post, FullOptions>>, <<K_execute, Undefined>>,
   <<K_select, Fields1>>}

\* variables.trace = 1
WithTrace(variables) ==
  IF \E k \in DOMAIN variables : variables[k].name = "trace" THEN variables
  ELSE Append(variables, [name |-> "trace", value |-> Num(1)])

\* the descriptor after a hook that sets config.headers.Trace and, in a
\* GraphQL body, config.data.variables.trace
Mutated(config) ==
  [config EXCEPT
     !.headers = Spread(@, [Trace |-> "hook"]),
     !.data = IF @.t = "graphql"
              THEN [@ EXCEPT !.variables = WithTrace(@)]
              ELSE @]

\* execute and then hand makeRequest built.variables, the one object the
\* builder holds; select hands it the result of a new buildQuery call
SharesVariables(c) == c.via \in {"execute", "then"}

\* the request hook of call i changes its descriptor in place and returns it:
\* the variables object is changed for the builder and for every pending
\* call that was handed the same object and is still before the transport
RequestHookMutates(i) ==
  /\ calls[i].pc = "requestHook"
  /\ LET c == calls[i]
         m == Mutated(c.config[1])
         shared(j) == /\ j # i
                      /\ SharesVariables(c) /\ SharesVariables(calls[j])
                      /\ calls[j].x = c.x
                      /\ calls[j].pc = "requestHook"
     IN /\ calls' = [j \in DOMAIN calls |->
                      IF j = i THEN AfterRequestHook(c, Ok(Some(m)))
                      ELSE IF shared(j)
                      THEN [calls[j] EXCEPT
                              !.config[1].data.variables = m.data.variables]
                      ELSE calls[j]]
        /\ objs' = IF SharesVariables(c)
                   THEN [objs EXCEPT ![c.x].built.variables = m.data.variables]
                   ELSE objs
  /\ UNCHANGED <<chain, last, cfg>>

NextConcurrent ==
  \/ \E x \in DOMAIN objs, c \in ConcurrentCalls : ConcurrentCall(x, c[1], c[2])
  \/ \E i \in DOMAIN calls : RequestHookSettles(i, Ok(Some(calls[i].config[1])))
  \/ \E i \in DOMAIN calls : RequestHookMutates(i)
  \/ \E i \in DOMAIN calls :
       \E outcome \in {Ok(Response(Payload(Some(Str("D")), None))),
                        Throw(Error("Network Error"))} :
         TransportSettles(i, outcome)
  \/ \E i \in DOMAIN calls : ResponseHookSettles(i, Ok(Str("hooked")))
  \/ Await

SpecConcurrent == InitConcurrent /\ [][NextConcurrent]_vars

(***************************************************************************)
(* Reading the history.  chain records, per chain object, the step that    *)
(* made it and the object it was made from.                                *)
(***************************************************************************)
RECURSIVE StepsIn(_, _)
\* the steps that led to chain object x, oldest first
StepsIn(links, x) ==
  IF links[x].parent = 0 THEN <<>>
  ELSE Append(StepsIn(links, links[x].parent), links[x].step)

Steps(x) == StepsIn(chain, x)

\* the positions of the steps of one kind
StepsOf(steps, op) == {i \in DOMAIN steps : steps[i].op = op}

Latest(S) == CHOOSE m \in S : \A n \in S : n <= m

\* the argument of the last base(...) step, or the instance base URL
LastBase(steps) ==
  IF StepsOf(steps, "base") = {} THEN baseUrl
  ELSE steps[Latest(StepsOf(steps, "base"))].base

RECURSIVE SegmentsOf(_)
\* one segment per property access; per invocation its non-null arguments as
\* strings; nothing for base(...) and headers(...)
SegmentsOf(steps) ==
  IF Len(steps) = 0 THEN <<>>
  ELSE LET step == steps[Len(steps)]
           sofar == SegmentsOf(Front(steps))
       IN CASE step.op = "get" -> Append(sofar, step.key)
            [] step.op = "apply" ->
                 LET kept == SelectSeq(step.args, NotNullish)
                 IN sofar \o [j \in DOMAIN kept |-> String(kept[j])]
            [] OTHER -> sofar

ChainOps == {"get", "apply", "base", "headers"}

\* the hook and transport invocations a call has caused so far
IO(c) == c.nReq + c.nSend + c.nResp

\* the calls that reached makeRequest with a descriptor
Described == {i \in DOMAIN calls : calls[i].config # None}

(***************************************************************************)
(* C1                                                                      *)
(***************************************************************************)
\* C1: a terminal call whose request hook, transport or response hook failed,
\* whatever value was thrown, does not reject: its promise resolves to an
\* envelope with data = null and exactly one entry in errors.
C1_FailuresBecomeEnvelopes ==
  \A i \in DOMAIN calls :
    (calls[i].pc = "done"
       /\ calls[i].cause \in {"requestHook", "transport", "responseHook"})
    => /\ calls[i].settled[1].state = "fulfilled"
       /\ calls[i].settled[1].value.data = Null
       /\ calls[i].settled[1].value.errors # None
       /\ Len(calls[i].settled[1].value.errors[1]) = 1

(***************************************************************************)
(* C2                                                                      *)
(***************************************************************************)
KnownKeys ==
  {K_base, K_headers, K_get, K_GET, K_Get, K_post, K_put, K_patch, K_delete,
   K_users, K_select, K_execute, K_then, K_query, K_Query, K_mutation,
   K_subscription, K_user, K_fetch}

\* the keys a REST chain object answers with its verb function
VerbKeys ==
  {Text(k) : k \in {kk \in KnownKeys :
                      toLowerCase(kk) \in {K_get, K_post, K_put, K_patch, K_delete}}}

C3_ChainObjectsImmutable ==
  [][cfg.world = "rest" =>
       /\ \A x \in DOMAIN objs : x \in DOMAIN objs' /\ objs'[x] = objs[x]
       /\ (last'.op \in ChainOps /\ last'.ret = "proxy")
            => /\ Len(objs') = Len(objs) + 1
               /\ chain'[Len(objs')].parent \in DOMAIN objs
       /\ \A y \in DOMAIN objs' :
            chain'[y].step.op = "base"
            => objs'[y].ctx.base = Some(chain'[y].step.base)
       /\ \A i \in DOMAIN calls' :
            calls'[i].config # None
            => LET c == calls'[i]
                   own == objs'[c.x]
               IN /\ c.config[1].url =
                       Some(build(LastBase(StepsIn(chain', c.x)), own.segments,
                                  c.arg.query).value)
                  /\ \A k \in DOMAIN OrEmpty(own.ctx.headers) :
                       k \in DOMAIN c.config[1].headers
                       /\ (k \notin DOMAIN OrEmpty(c.arg.headers)
                             => c.config[1].headers[k] = own.ctx.headers[1][k])]_vars

\* two siblings X.base(u1) and X.base(u2) exist, and a call through the first,
\* made after the second was created, went to u1
C3_SiblingsWitness ==
  /\ cfg.world = "rest"
  /\ Len(objs) >= 3
  /\ chain[2] = Link(1, [op |-> "base", base |-> Base1])
  /\ chain[3] = Link(1, [op |-> "base", base |-> Base2])
  /\ \E i \in DOMAIN calls :
       /\ calls[i].x = 2
       /\ calls[i].config # None
       /\ calls[i].config[1].url = Some("https://api2.example.com/")

(***************************************************************************)
(* C4                                                                      *)
(***************************************************************************)
\* C4: on a REST chain the effective base is the argument of the last
\* base(...) step (the instance base URL without one) and is the base of the
\* URL of a terminal call; the context headers are the union of the
\* headers(...) arguments, each key with the value of the last argument that
\* has it; base(...) keeps headers and segments, headers(...) keeps base and
\* segments.
C4_ContextOverride ==
  cfg.world = "rest" =>
    /\ \A x \in DOMAIN objs :
         LET steps == Steps(x)
             hs == StepsOf(steps, "headers")
             keys == UNION {DOMAIN steps[i].headers.m : i \in hs}
             ctx == objs[x].ctx
         IN /\ OrElse(ctx.base, baseUrl) = LastBase(steps)
            /\ DOMAIN OrEmpty(ctx.headers) = keys
            /\ \A k \in keys :
                 OrEmpty(ctx.headers)[k] =
                   steps[Latest({i \in hs : k \in DOMAIN steps[i].headers.m})].headers.m[k]
            /\ chain[x].step.op = "base"
                 => /\ ctx.headers = objs[chain[x].parent].ctx.headers
                    /\ objs[x].segments = objs[chain[x].parent].segments
            /\ chain[x].step.op = "headers"
                 => /\ ctx.base = objs[chain[x].parent].ctx.base
                    /\ objs[x].segments = objs[chain[x].parent].segments
    /\ \A i \in Described :
         calls[i].config[1].url =
           Some(build(LastBase(Steps(calls[i].x)), objs[calls[i].x].segments,
                      calls[i].arg.query).value)

\* a call through rest.headers(h1).headers(h2): the later value of the shared
\* key, and the keys of both
C4_OverrideWitness ==
  /\ cfg.world = "rest"
  /\ \E i \in Described :
       /\ Steps(calls[i].x) = <<[op |-> "headers", headers |-> Headers1],
                                [op |-> "headers", headers |-> Headers2]>>
       /\ objs[calls[i].x].ctx.headers =
            Some([Auth |-> "ctx2", Lang |-> "en", Trace |-> "on"])
       /\ calls[i].via = "get"
       /\ calls[i].config[1].headers["Auth"] = "ctx2"

(***************************************************************************)
(* C5                                                                      *)
(***************************************************************************)
\* C5: the headers of a terminal call's descriptor are, key by key, the value
\* of the last layer that has the key: for REST the layers are instance
\* headers, context headers, per-call headers; for GraphQL they are
\* {'Content-Type': 'application/json'}, instance headers, context headers.
C5_HeaderLayering ==
  \A i \in Described :
    cfg.world \in {"rest", "gql"} =>
      LET c == calls[i]
          layers ==
            IF cfg.world = "rest"
            THEN <<cfg.headers, OrEmpty(objs[c.x].ctx.headers),
                   OrEmpty(c.arg.headers)>>
            ELSE <<"Content-Type" :> "application/json", cfg.headers,
                   OrEmpty(objs[c.x].ctx.headers)>>
          h == c.config[1].headers
      IN /\ DOMAIN h = UNION {DOMAIN layers[j] : j \in 1..3}
         /\ \A k \in DOMAIN h :
              h[k] = layers[Latest({j \in 1..3 : k \in DOMAIN layers[j]})][k]

\* a REST call with all three layers: Auth is in each of them, Accept in the
\* instance and the call, Lang in the context alone
C5_LayeringWitness ==
  \E i \in Described :
    /\ cfg.world = "rest"
    /\ cfg.headers = instanceHeaders
    /\ objs[calls[i].x].ctx.headers = Some(Headers1.m)
    /\ calls[i].arg = FullOptions
    /\ calls[i].config[1].headers = [Accept |-> "xml", Auth |-> "call", Lang |-> "en"]

(***************************************************************************)
(* C6                                                                      *)
(***************************************************************************)
\* C6: the segments of a REST chain object are the concatenation, in chain
\* order, of one segment per property access and of each invocation's
\* arguments without null and undefined, as strings; the URL of a terminal
\* call is built from exactly these segments.
C6_SegmentAccumulation ==
  cfg.world = "rest" =>
    /\ \A x \in DOMAIN objs : objs[x].segments = SegmentsOf(Steps(x))
    /\ \A i \in Described :
         calls[i].config[1].url =
           Some(build(OrElse(objs[calls[i].x].ctx.base, baseUrl),
                      SegmentsOf(Steps(calls[i].x)), calls[i].arg.query).value)

\* rest.users(null, 123, undefined, 'posts').get() asks for users/123/posts
C6_SegmentsWitness ==
  \E i \in Described :
    /\ cfg.world = "rest"
    /\ Steps(calls[i].x) =
         <<[op |-> "get", key |-> "users"],
           [op |-> "apply", args |-> <<Null, Num(123), Undefined, Str("posts")>>]>>
    /\ objs[calls[i].x].segments = <<"users", "123", "posts">>
    /\ calls[i].config[1].url = Some("https://api.example.com/users/123/posts")

(***************************************************************************)
(* C7                                                                      *)
(***************************************************************************)
\* C7: on a REST chain object the lowercase keys get, post, put, patch and
\* delete give the verb function, and the uppercase key GET gives a new chain
\* object (a path segment).
C7_UppercaseIsSegment ==
  (cfg.world = "rest" /\ last.op = "get")
  => /\ last.key \in {"get", "post", "put", "patch", "delete"} => last.ret = "verbFn"
     /\ last.key = "GET" => last.ret = "proxy"

(***************************************************************************)
(* C8                                                                      *)
(***************************************************************************)
\* C8: base(u) with u not an absolute URL and headers(h) with h null, not an
\* object or an array throw from the call itself, on REST and GraphQL chains:
\* no hook or transport is running or started, no chain object is made, and
\* every chain object is as it was.
C8_ValidationThrowsAtTheCall ==
  [][/\ last'.op = "base" =>
          \A x \in DOMAIN objs, u \in {NotAUrl} :
            (RestSetBase(x, u) \/ GqlSetBase(x, u))
            => /\ last'.ret = "threw"
               /\ calls = <<>> /\ calls' = <<>>
               /\ objs' = objs /\ chain' = chain
     /\ last'.op = "headers" =>
          \A x \in DOMAIN objs, h \in {Null, Arr(<<>>), Str("x")} :
            (RestSetHeaders(x, h) \/ GqlSetHeaders(x, h))
            => /\ last'.ret = "threw"
               /\ calls = <<>> /\ calls' = <<>>
               /\ objs' = objs /\ chain' = chain]_vars

\* base('not-a-url') has thrown on a chain object that is not the root
C8_ThrewWitness ==
  /\ last = Threw("base", "base", Error("Invalid URL format: not-a-url"))
  /\ Len(objs) > 1
  /\ calls = <<>>

(***************************************************************************)
(* C9                                                                      *)
(***************************************************************************)
\* C9: makeRequest with a descriptor whose url is absent or empty invokes no
\* request hook, no transport and no response hook, and returns an envelope
\* with data = null and exactly one error, whose extensions.message is
\* 'Request URL is required'.
C9_MissingUrl ==
  \A i \in DOMAIN calls :
    (calls[i].via = "makeRequest"
       /\ (calls[i].config[1].url = None \/ calls[i].config[1].url = Some("")))
    => /\ calls[i].pc = "done"
       /\ IO(calls[i]) = 0
       /\ calls[i].settled # None
       /\ calls[i].settled[1].state = "fulfilled"
       /\ calls[i].settled[1].value.data = Null
       /\ calls[i].settled[1].value.errors # None
       /\ Len(calls[i].settled[1].value.errors[1]) = 1
       /\ calls[i].settled[1].value.errors[1][1].extensions.message
            = "Request URL is required"

\* makeRequest was called without a url on an instance with both hooks set
C9_MissingUrlWitness ==
  \E i \in DOMAIN calls :
    /\ calls[i].via = "makeRequest"
    /\ calls[i].config[1].url = None
    /\ cfg.requestHook /\ cfg.responseHook
    /\ calls[i].pc = "done"

(***************************************************************************)
(* C10                                                                     *)
(***************************************************************************)
\* C10: the descriptor handed to the transport carries timeout 30000 when the
\* descriptor after the request hook has no timeout, and the timeout that
\* descriptor has, whatever its value, when it has one.
C10_TimeoutAsSet ==
  \A i \in DOMAIN calls :
    calls[i].sent # None
    => calls[i].sent[1].timeout =
         (IF calls[i].final[1].timeout = None THEN Some(30000)
          ELSE calls[i].final[1].timeout)

(***************************************************************************)
(* C11, C12                                                                *)
(***************************************************************************)
\* the calls whose request hook, transport or response hook threw
Failed ==
  {i \in DOMAIN calls :
     calls[i].pc = "done"
     /\ calls[i].cause \in {"requestHook", "transport", "responseHook"}}

\* the call resolved to an envelope with data = null and a single error
SingleError(c) ==
  /\ c.settled[1].state = "fulfilled"
  /\ c.settled[1].value.data = Null
  /\ c.settled[1].value.errors # None
  /\ Len(c.settled[1].value.errors[1]) = 1

\* what a thrown value carries: a response, a code, a message of its own
ResponseOf(t) == IF t.t = "error" THEN t.response ELSE None

CodeOf(t) == IF t.t = "error" THEN t.code ELSE None

OwnMessageOf(t) == IF t.t = "error" THEN t.message ELSE ""

\* a field of the failure payload, "" when there is none
PayloadField(t, field) ==
  IF ResponseOf(t) = None \/ ResponseOf(t)[1].data = None THEN ""
  ELSE IF ResponseOf(t)[1].data[1][field] = None THEN ""
  ELSE ResponseOf(t)[1].data[1][field][1]

\* C11: for every thrown failure the single error has extensions.code =
\* String(status), status being the response status if present, else 408 for
\* code ECONNABORTED, else 500; extensions.error = true; message 'Internal
\* Server Error'.
C11_StatusDerivation ==
  \A i \in Failed :
    LET c == calls[i]
        t == c.thrown[1]
        status == IF ResponseOf(t) # None /\ ResponseOf(t)[1].status # None
                  THEN ResponseOf(t)[1].status[1]
                  ELSE IF CodeOf(t) = Some("ECONNABORTED") THEN 408 ELSE 500
    IN /\ SingleError(c)
       /\ c.settled[1].value.errors[1][1].extensions.code = ToString(status)
       /\ c.settled[1].value.errors[1][1].extensions.error = TRUE
       /\ c.settled[1].value.errors[1][1].message = "Internal Server Error"

\* C12: for every thrown failure extensions.message of the single error is the
\* first available of: the payload's message, the payload's error, 'Request
\* timeout' for ECONNABORTED, 'Network connection failed' for ENOTFOUND and
\* ECONNREFUSED, the failure's own message, 'Network request failed'.
C12_MessagePriority ==
  \A i \in Failed :
    LET c == calls[i]
        t == c.thrown[1]
        candidates ==
          <<PayloadField(t, "message"),
            PayloadField(t, "error"),
            IF CodeOf(t) = Some("ECONNABORTED") THEN "Request timeout" ELSE "",
            IF CodeOf(t) \in {Some("ENOTFOUND"), Some("ECONNREFUSED")}
            THEN "Network connection failed" ELSE "",
            OwnMessageOf(t),
            "Network request failed">>
        first == CHOOSE j \in 1..6 :
                   candidates[j] # "" /\ \A k \in 1..(j - 1) : candidates[k] = ""
    IN /\ SingleError(c)
       /\ c.settled[1].value.errors[1][1].extensions.message = candidates[first]

(***************************************************************************)
(* C13                                                                     *)
(***************************************************************************)
\* the data field of a response payload, null when the payload or the field
\* is absent or null
PayloadData(payload) ==
  IF ~NotNullish(payload) \/ payload.data = None \/ ~NotNullish(payload.data[1])
  THEN Null
  ELSE payload.data[1]

\* the entries of the payload's errors when that is a sequence, else none
PayloadErrors(payload) ==
  IF ~NotNullish(payload) \/ payload.errors = None \/ payload.errors[1].t # "array"
  THEN <<>>
  ELSE payload.errors[1].a

\* the envelope e carries data and one normalized entry per raw error, in order
EnvelopeOf(e, data, raw) ==
  /\ e.data = data
  /\ (e.errors # None) <=> (Len(raw) > 0)
  /\ Len(raw) > 0
       => /\ Len(e.errors[1]) = Len(raw)
          /\ \A j \in DOMAIN raw :
               compose(raw[j]).ok /\ e.errors[1][j] = compose(raw[j]).value

\* C13: with no response hook, a call whose transport returned a response
\* resolves to an envelope whose data is the payload's data (null when the
\* payload or its data is absent or null) and which has errors exactly when
\* the payload's errors is a non-empty sequence: one normalized entry per
\* payload entry, in order, data still being the payload's data.
C13_SuccessEnvelope ==
  \A i \in DOMAIN calls :
    (calls[i].result # None /\ NotNullish(calls[i].result[1]) /\ ~cfg.responseHook)
    => /\ calls[i].pc = "done"
       /\ calls[i].settled[1].state = "fulfilled"
       /\ EnvelopeOf(calls[i].settled[1].value,
                     PayloadData(calls[i].result[1].data),
                     PayloadErrors(calls[i].result[1].data))

(***************************************************************************)
(* C14                                                                     *)
(***************************************************************************)
\* C14: with a response hook, a call whose transport returned a response has
\* invoked the hook exactly once, with that response, whatever data and errors
\* its payload carries; and once the hook has returned, the call is resolved
\* to the hook's output.
C14_ResponseHookOutput ==
  \A i \in DOMAIN calls :
    (calls[i].result # None /\ NotNullish(calls[i].result[1]) /\ cfg.responseHook)
    => /\ calls[i].nResp = 1
       /\ calls[i].raw = calls[i].result
       /\ calls[i].hooked # None
            => /\ calls[i].pc = "done"
               /\ calls[i].settled = Some(Fulfilled(calls[i].hooked[1]))


(***************************************************************************)
(* C15, C16: the normalized error compose returns.                         *)
(***************************************************************************)
Composing == last.op = "compose"

\* the raw error's extensions field `name`, None when the raw error has no
\* extensions or no such field
RawField(error, name) ==
  IF error.extensions = None THEN None
  ELSE IF name = "code" THEN error.extensions[1].code
  ELSE error.extensions[1].message

TableKeys == {"401", "404", "500", "422", "BAD_USER_INPUT", "INTERNAL_SERVER_ERROR"}

\* the message field, read as the string or object it carries
MessageRead(message) ==
  IF message \in {None, Some(Undefined)} THEN Str("") ELSE message[1]

\* the table entry for a code in the table
TableEntry(key, message) ==
  CASE key \in {"401", "404", "500"} -> MessageRead(message)
    [] key = "422" -> (IF message # None /\ message[1].t = "object"
                      THEN Str(Join(message[1].vals, ", "))
                      ELSE MessageRead(message))
    [] key = "BAD_USER_INPUT" -> Str("Input is not valid")
    [] key = "INTERNAL_SERVER_ERROR" -> Str("Internal Server Error")

\* C15: for every raw error, compose returns a normalized error whose
\* extensions.message is '' when the code is absent, the table entry when
\* the code is in the table (the extensions message for 401, 404 and 500;
\* for 422 the message, or its comma-joined values when it is a non-null
\* object; the fixed texts for BAD_USER_INPUT and INTERNAL_SERVER_ERROR),
\* and 'Unknown error' when the code is present but not in the table.
C15_MessageResolution ==
  Composing =>
    LET code == RawField(last.arg, "code")
        message == RawField(last.arg, "message")
    IN /\ last.res.ok
       /\ last.res.value.extensions.message =
            (IF code = None THEN Str("")
             ELSE IF String(code[1]) \in TableKeys
                  THEN TableEntry(String(code[1]), message)
                  ELSE Str("Unknown error"))


\* C16: for every raw error, compose returns exactly
\* { extensions: { code, message } }: the outer message and every other
\* extension key are dropped, and the output code is the input extensions
\* code.
C16_OutputShape ==
  Composing =>
    /\ last.res.ok
    /\ DOMAIN last.res.value = {"extensions"}
    /\ DOMAIN last.res.value.extensions = {"code", "message"}
    /\ last.res.value.extensions.code = RawField(last.arg, "code")


(***************************************************************************)
(* C17, C18: the template of a request made through a query builder.  The  *)
(* request carries what buildQuery made of the template it was handed.     *)
(***************************************************************************)
\* the terminal calls made through select that reached makeRequest
Selected == {i \in DOMAIN calls : calls[i].via = "select" /\ calls[i].config # None}

\* the template with selection text sel in braces
SelectTemplate(o, sel) ==
  IF Len(o.argsObj) > 0
  THEN <<o.operation \o " { " \o o.field \o " (", ") { " \o sel \o " } }">>
  ELSE <<o.operation \o " { " \o o.field \o " ", " { " \o sel \o " } }">>

\* the call was made with this template and the builder's args
BuiltFrom(c, o, template) ==
  c.config[1].data = [t |-> "graphql",
                      query |-> buildQuery(template, o.argsObj).value.query,
                      variables |-> o.argsObj]

\* C17 as stated: for every operation kind, field, args and non-blank
\* selection sel, select(sel) calls buildQuery with the template
\* ["<op> { <field> (", ") { <sel> } }"] when args is non-empty and
\* ["<op> { <field> ", " { <sel> } }"] when it is empty, sel being the
\* selection as it was given, and with the builder's args.
C17_SelectTemplateAsGiven ==
  \A i \in Selected :
    LET o == objs[calls[i].x]
        claimed == SelectTemplate(o, Text(calls[i].arg.c))
    IN /\ templateParts(o.operation, o.field, o.argsObj, calls[i].arg.c) = claimed
       /\ BuiltFrom(calls[i], o, claimed)

\* C17 amended: the same, sel being the selection with the white space
\* at its ends removed.
C17_SelectTemplate ==
  \A i \in Selected :
    LET o == objs[calls[i].x]
        claimed == SelectTemplate(o, Text(trim(calls[i].arg.c)))
    IN /\ templateParts(o.operation, o.field, o.argsObj, calls[i].arg.c) = claimed
       /\ BuiltFrom(calls[i], o, claimed)

\* select was called with a padded selection on a mutation builder with two
\* args, and the request was sent
C17_SelectedWitness ==
  \E i \in Selected :
    /\ calls[i].arg = Fields2
    /\ objs[calls[i].x].operation = "mutation"
    /\ Len(objs[calls[i].x].argsObj) = 2
    /\ calls[i].nSend = 1


\* the terminal calls made through execute that reached makeRequest
Executed == {i \in DOMAIN calls : calls[i].via = "execute" /\ calls[i].config # None}

\* the template without a selection
BareTemplate(o) ==
  IF Len(o.argsObj) > 0
  THEN <<o.operation \o " { " \o o.field \o " (", ")  }">>
  ELSE <<o.operation \o " { " \o o.field \o " ", "  }">>

BuildFailures ==
  {"Failed to build GraphQL " \o Text(operation) \o " for field \"" \o Text(field)
     \o "\": " \o cause :
     operation \in GRAPHQL_OPERATIONS, field \in GqlFields \ {<<>>},
     cause \in {"Build failed", "Failed to generate valid GraphQL query"}}

\* C19: a failure of buildQuery (throwing, or returning a falsy query) is
\* raised as the build failure naming the operation kind and the field,
\* synchronously at the select(...) or execute() call; field access on the
\* operation object, invocation with args, base and headers do not raise it,
\* and no terminal call returns a promise rejected with it.
C19_BuildFailureAtTerminal ==
  /\ (last.ret = "threw" /\ last.error \in BuildFailures)
       => (last.op = "call" /\ last.key \in {"select", "execute"})
  /\ \A i \in DOMAIN calls :
       calls[i].thrown # None /\ calls[i].cause = "descriptor"
         => calls[i].thrown[1].message \notin BuildFailures


(***************************************************************************)
(* C20: the keys of the GraphQL entry point.                               *)
(***************************************************************************)
InvalidOperation(key) ==
  Error("Invalid GraphQL operation \"" \o key
        \o "\". Valid operations: query, mutation, subscription")

\* C20: property access on the GraphQL entry point succeeds only for the keys
\* query, mutation and subscription, giving the operation object of that
\* kind; for every other string key it throws the invalid-operation error
\* naming the valid set, and no operation object is made.
C20_RootKeys ==
  [][\A x \in DOMAIN objs, key \in GqlRootKeys :
       GqlRootAccess(x, key) =>
         IF Text(key) \in {"query", "mutation", "subscription"}
         THEN /\ Len(objs') = Len(objs) + 1
              /\ objs'[Len(objs')] = createOperationProxy(Text(key), objs[x].ctx)
         ELSE /\ objs' = objs
              /\ last' = Threw("get", Text(key), InvalidOperation(Text(key)))]_vars


(***************************************************************************)
(* C21: the properties of a query builder.                                 *)
(***************************************************************************)
InvalidProperty(key) ==
  Error("Invalid property \"" \o key
        \o "\". Available methods: select(fields), execute(), base(url), headers(obj)")

\* reading a property of a builder gives a function for the names in
\* `known` and throws the invalid-property error for every other name
BuilderProperties(known) ==
  \A x \in DOMAIN objs, prop \in BuilderKeys :
    BuilderAccess(x, prop) =>
      IF Text(prop) \in known
      THEN last'.ret \notin {"threw", "undefined"}
      ELSE last' = Threw("get", Text(prop), InvalidProperty(Text(prop)))

\* C21 as stated: on a query builder every property name other than select,
\* execute, base and headers throws the invalid-property error that
\* enumerates those four names.
C21_FourProperties ==
  [][BuilderProperties({"select", "execute", "base", "headers"})]_vars

\* C21 amended: every property name other than select, execute, then, base
\* and headers throws the invalid-property error, which enumerates select,
\* execute, base and headers; then gives a function.
C21_FiveProperties ==
  [][BuilderProperties({"select", "execute", "then", "base", "headers"})]_vars

\* B.fetch was read on a builder and threw the invalid-property error
C21_InvalidPropertyWitness ==
  /\ last = Threw("get", "fetch", InvalidProperty("fetch"))
  /\ \E x \in DOMAIN objs : objs[x].kind = "builder"


(***************************************************************************)
(* C22: the values a query builder may be invoked with.                    *)
(***************************************************************************)
InvalidArgs == Error("GraphQL arguments must be an object")

\* C22: B(newArgs) succeeds, giving a new builder, only when newArgs is
\* undefined, null or a plain object; for every other value (strings,
\* numbers, booleans, arrays) it throws 'GraphQL arguments must be an object'
\* and no builder is made.
C22_ArgsValidation ==
  [][\A x \in DOMAIN objs, newArgs \in InvokeArgs :
       (MayDerive /\ GqlInvoke(x, newArgs)) =>
         IF newArgs \in {Undefined, Null} \/ ObjectTag(newArgs) = "[object Object]"
         THEN /\ Len(objs') = Len(objs) + 1
              /\ objs'[Len(objs')].kind = "builder"
         ELSE /\ objs' = objs
              /\ last' = Threw("apply", "", InvalidArgs)]_vars


(***************************************************************************)
(* C23: builders are not changed by the steps made on them.                *)
(***************************************************************************)
\* the builders made from another builder
Derived(links) == {y \in DOMAIN links : links[y].parent > 0}

\* C23: B(a2), B.base(u) and B.headers(h) return a new builder with the
\* operation kind and field of B in which only the args (a2, replacing B's),
\* the base or the headers differ; every existing builder keeps its args and
\* context; and a terminal call sends the args of the builder it is made
\* through, to that builder's base.
C23_BuildersImmutable ==
  [][/\ \A x \in DOMAIN objs : x \in DOMAIN objs' /\ objs'[x] = objs[x]
     /\ \A y \in Derived(chain') :
          LET B == objs'[chain'[y].parent]
              step == chain'[y].step
              new == objs'[y]
          IN /\ new.operation = B.operation
             /\ new.field = B.field
             /\ step.op = "apply"
                  => /\ new.ctx = B.ctx
                     /\ ObjectTag(step.args) = "[object Object]"
                          => new.argsObj = step.args.m
                     /\ step.args \in {Undefined, Null} => new.argsObj = NoArgs
             /\ step.op = "base"
                  => /\ new.argsObj = B.argsObj
                     /\ new.ctx.headers = B.ctx.headers
                     /\ new.ctx.base = Some(step.base)
             /\ step.op = "headers"
                  => /\ new.argsObj = B.argsObj
                     /\ new.ctx.base = B.ctx.base
                     /\ new.ctx.headers =
                          Some(Spread(OrEmpty(B.ctx.headers), step.headers.m))
     /\ \A i \in DOMAIN calls' :
          calls'[i].config # None
          => /\ calls'[i].config[1].data.variables = objs'[calls'[i].x].argsObj
             /\ calls'[i].config[1].url =
                  Some(RawText(OrElse(objs'[calls'[i].x].ctx.base, baseUrl)))]_vars

\* B(a1)(a2) was built, and a terminal call made afterwards through B(a1)
\* sent a1
C23_SiblingWitness ==
  /\ Len(objs) = 2
  /\ objs[1].argsObj = Args1.m
  /\ chain[2] = Link(1, [op |-> "apply", args |-> Args2])
  /\ objs[2].argsObj = Args2.m
  /\ \E i \in DOMAIN calls :
       /\ calls[i].x = 1
       /\ calls[i].nSend = 1
       /\ calls[i].sent[1].data.variables = Args1.m


(***************************************************************************)
(* C24, C26: what a terminal call sends, against what its own chain object *)
(* and options give.                                                       *)
(***************************************************************************)
\* the descriptor the terminal call c assembles from the segments, args and
\* context of its chain object and from its options
Assembled(c) ==
  LET o == objs[c.x]
  IN IF o.kind = "rest"
     THEN RestDescriptor(o, CHOOSE k \in HTTP_METHODS : Text(k) = c.via, c.arg).value
     ELSE LET B == createQueryBuilder(o.operation, o.field, o.argsObj, o.ctx).value
          IN IF c.via = "select" THEN GqlSelect(B, c.arg).res.value
             ELSE GqlExecute(B).res.value

WithDefaultTimeout(config) == [config EXCEPT !.timeout = Some(DefaultTimeout)]

\* C24: for terminal calls pending together, made through one chain object
\* or through siblings, under every interleaving of their request hooks,
\* transport calls and response hooks, the descriptor a call hands to the
\* transport is the one its own chain object and options give, as its own
\* request hook left it, and the envelope it returns is the one its own
\* transport outcome gives.
C24_NoInterference ==
  \A i \in DOMAIN calls :
    /\ calls[i].sent # None
         => calls[i].sent[1] \in {WithDefaultTimeout(Assembled(calls[i])),
                                  WithDefaultTimeout(Mutated(Assembled(calls[i])))}
    /\ calls[i].pc = "done"
         => calls[i].settled =
              Some(Fulfilled(IF calls[i].thrown # None
                             THEN handleRequestError(calls[i].thrown[1]).value
                             ELSE IF cfg.responseHook THEN calls[i].hooked[1]
                             ELSE BuildResponse(calls[i].result[1]).value))

\* C26: the descriptor a terminal call hands to makeRequest is assembled
\* from its chain object and options alone: a change a request hook made to
\* the descriptor of another call, to its headers or to its GraphQL
\* variables, does not show in it, a repeated execute() on the same builder
\* included.
C26_FreshDescriptors ==
  \A i \in DOMAIN calls :
    calls[i].config # None => calls[i].config[1] = Assembled(calls[i])


(***************************************************************************)
(* C25: one pass through makeRequest.                                      *)
(***************************************************************************)
\* the two descriptors differ in their timeout at most (the default timeout
\* is written into the descriptor before it is sent)
SameButTimeout(a, b) == [a EXCEPT !.timeout = None] = [b EXCEPT !.timeout = None]

HasUrl(config) == config.url # None /\ config.url[1] # ""

IsPathStep(step) == step.op \in {"get", "apply"}

IsConfigStep(step) == step.op \in {"base", "headers"}

\* the same steps with every base(...) and headers(...) moved to the end,
\* each kind in its order
ConfigLast(steps) == SelectSeq(steps, IsPathStep) \o SelectSeq(steps, IsConfigStep)

RECURSIVE Replay(_, _)
\* the chain object that the steps, taken one after the other, lead to from o
Replay(o, steps) ==
  IF Len(steps) = 0 THEN o
  ELSE LET step == steps[1]
           heap == CASE step.op = "get" -> RestGet(<<o>>, 1, CHOOSE k \in KnownKeys : Text(k) = step.key)
                     [] step.op = "apply" -> RestApply(<<o>>, 1, step.args)
                     [] step.op = "base" -> RestBase(<<o>>, 1, step.base).value
                     [] step.op = "headers" -> RestHeaders(<<o>>, 1, step.headers).value
       IN Replay(heap[2], Tail(steps))

\* C28: the URL and the headers of a terminal call on a REST chain are those
\* of the same call on the chain with the same path steps followed by the
\* same base(...) and headers(...) steps in the same relative order.
C28_ConfigCommutes ==
  \A i \in Described :
    cfg.world = "rest" =>
      LET c == calls[i]
          atEnd == Replay(objs[1], ConfigLast(Steps(c.x)))
          d == RestDescriptor(atEnd, K_get, c.arg)
      IN /\ d.ok
         /\ c.config[1].url = d.value.url
         /\ c.config[1].headers = d.value.headers

\* a call through rest.base(u).users, where base(u) comes before the segment
C28_ConfigFirstWitness ==
  \E i \in Described :
    /\ cfg.world = "rest"
    /\ Steps(calls[i].x) = <<[op |-> "base", base |-> Base1],
                             [op |-> "get", key |-> "users"]>>
    /\ calls[i].config[1].url = Some("https://api2.example.com/users")


(***************************************************************************)
(* C29: the url of the descriptor handed to the transport.                 *)
(***************************************************************************)
\* C29: in every execution of makeRequest, request hooks that replace or
\* rewrite the descriptor included, the descriptor handed to the transport
\* has a url that is neither absent nor empty.
C29_TransportHasUrl ==
  \A i \in DOMAIN calls :
    calls[i].nSend = 1 => (calls[i].sent # None /\ HasUrl(calls[i].sent[1]))


(***************************************************************************)
(* C30: no terminal call of a proxy chain lacks a url.                     *)
(***************************************************************************)
\* C30: the descriptor that a terminal call on a chain from .rest or .gql
\* passes to makeRequest, whatever segments and whatever base and headers
\* steps that did not throw the chain has, carries a non-empty url, and no
\* such call ends with the missing-url error.
C30_ProxiesGiveUrl ==
  cfg.world \in {"rest", "gql"} =>
    /\ \A i \in Described : HasUrl(calls[i].config[1])
    /\ \A i \in DOMAIN calls : calls[i].cause # "missingUrl"
    /\ \A x \in DOMAIN objs :
         "ctx" \in DOMAIN objs[x] /\ objs[x].ctx.base # None
         => Parses(objs[x].ctx.base[1])

\* a GraphQL call without any base step went out to the instance base URL,
\* and a REST call through base(u) went out to u
C30_UrlWitness ==
  \E i \in Described :
    /\ calls[i].nSend = 1
    /\ \/ /\ cfg.world = "gql"
          /\ StepsOf(Steps(calls[i].x), "base") = {}
          /\ calls[i].config[1].url = Some("https://api.example.com")
       \/ /\ cfg.world = "rest"
          /\ StepsOf(Steps(calls[i].x), "base") # {}
          /\ calls[i].config[1].url = Some("https://api2.example.com/")

====
